---- MODULE Spec2Model ----
(***************************************************************************)
(* User registration and JWT authentication service (ApiRest).            *)
(*                                                                         *)
(* The three request handlers of main.py (register_user, login and        *)
(* get_current_user behind /users/me) run in the worker threads of the    *)
(* server, one request per thread, over one shared users table.           *)
(*                                                                         *)
(* A handler takes its database handle db as a parameter.  The routes     *)
(* declare it as Depends(db_manager.get_db); get_db is wrapped in         *)
(* @contextmanager, so calling it runs no line of its body and returns a  *)
(* context manager that is never entered: a handler reached through its   *)
(* route holds that object, opens no session and fails at its first       *)
(* db.query.  A caller that enters get_db (with db_manager.get_db() as    *)
(* db) and calls the handler holds an open session until it leaves the    *)
(* with block.  Both ways of reaching a handler are modelled.             *)
(*                                                                         *)
(* Every round trip to the database (a query, the commit of an insert, the *)
(* refresh after it) is a step of its own that other requests              *)
(* and the clock may interleave with, and every access may raise          *)
(* SQLAlchemyError.  login reads the table and then the clock, which      *)
(* commutes with the steps of the other requests, so it is one step.      *)
(*                                                                         *)
(* The users table (models.UserModel), the password hasher and the token   *)
(* service (security) are modelled from their documented contracts.       *)
(***************************************************************************)
EXTENDS Integers, FiniteSets, TLC

VARIABLES
    store,      \* the rows of the users table
    now,        \* the wall clock, in minutes
    pc,         \* pc[t]: where worker thread t is in its request
    req,        \* req[t]: the request thread t is serving
    db,         \* db[t]: the database handle of thread t's handler
    response    \* response[t]: the response of thread t's request, once decided

vars == <<store, now, pc, req, db, response>>

----------------------------------------------------------------------------
(* Bounds and input domains *)

\* The worker threads of the server's thread pool that serve requests.
Workers == {"w1", "w2"}

MaxTime == 45
TickMinutes == 20

Emails == {"a@x.com", "b@x.com"}
Usernames == {"alice", "bob"}
Passwords == {"pw1", "pw2"}

\* The passwords users register with; a login may present any of Passwords.
ChosenPasswords == {"pw1"}

\* The salts the hasher draws.
Salts == {"s1"}

\* config.py: Settings.ACCESS_TOKEN_EXPIRE_MINUTES
ACCESS_TOKEN_EXPIRE_MINUTES == 30

----------------------------------------------------------------------------
(* models.py: UserModel, the users table *)

None == [none |-> TRUE]

UserModel(id, email, username, hashed_password, is_active) ==
    [id |-> id, email |-> email, username |-> username,
     hashed_password |-> hashed_password, is_active |-> is_active]

\* Variant: only the email column is declared unique.
UniqueViolation_EmailOnly(rows, email, username) ==
    \E u \in rows : u.email = email

\* The table's unique constraints on email and on username.
UniqueViolation(rows, email, username) ==
    \E u \in rows : u.email = email \/ u.username = username

\* The constraints a row with this email and username would violate.
ViolatedConstraints(rows, email, username) ==
    {c \in {"users.email", "users.username"} :
        \/ c = "users.email" /\ \E u \in rows : u.email = email
        \/ c = "users.username" /\ \E u \in rows : u.username = username}

\* The autoincremented primary key of the next row (rows are never deleted).
NextId(rows) == Cardinality(rows) + 1

----------------------------------------------------------------------------
(* security.py: password hasher and token service *)

\* A salted one-way hash: the salt is stored with the digest.
Digest(salt, plaintext) == <<"bcrypt", salt, plaintext>>

get_password_hash(salt, plaintext) == [salt |-> salt, digest |-> Digest(salt, plaintext)]

verify_password(plaintext, hashed) == Digest(hashed.salt, plaintext) = hashed.digest

\* A token is its claim set and a signature; "ok" is a signature made with
\* SECRET_KEY over these claims, "bad" is anything else.
create_access_token(sub, expires_delta, clock) ==
    [sub |-> sub, iat |-> clock, exp |-> clock + expires_delta, sig |-> "ok"]

\* The claims, or None when the signature does not verify or exp has elapsed.
decode_token(token, clock) ==
    IF token.sig = "ok" /\ token.exp > clock
    THEN [sub |-> token.sub, iat |-> token.iat, exp |-> token.exp]
    ELSE None

----------------------------------------------------------------------------
(* schemas.py and the responses of the handlers *)

NoToken == [sub |-> "", iat |-> 0, exp |-> 0, sig |-> "none"]

NoResponse == [status |-> 0, detail |-> "", headers |-> "", body |-> None]

HTTPException(status_code, detail, headers) ==
    [status |-> status_code, detail |-> detail, headers |-> headers, body |-> None]

UserResponse(u) ==
    [id |-> u.id, email |-> u.email, username |-> u.username, is_active |-> u.is_active]

Token(access_token, token_type) ==
    [access_token |-> access_token, token_type |-> token_type]

Returned(status_code, body) ==
    [status |-> status_code, detail |-> "", headers |-> "", body |-> body]

DuplicateEmail == HTTPException(400, "Email ya registrado", "")
DuplicateUsername == HTTPException(400, "Nombre de usuario ya registrado", "")
InvalidCredentials == HTTPException(401, "Credenciales incorrectas", "WWW-Authenticate: Bearer")
InvalidToken == HTTPException(401, "Token invalido", "WWW-Authenticate: Bearer")
UserNotFound == HTTPException(401, "Usuario no encontrado", "")

\* The texts str(e) of the SQLAlchemyError that a failed insert raises.
CreateErrors == {"users.email", "users.username", "OperationalError"}

\* crud.py line 44: the 500 of create_user, its detail ending in str(e); of
\* str(e) the model keeps the constraint the database names, or the class of
\* an error that is no unique violation.
StorageError(e) ==
    HTTPException(500,
        CASE e = "users.email" ->
                "Error al crear el usuario: UNIQUE constraint failed: users.email"
          [] e = "users.username" ->
                "Error al crear el usuario: UNIQUE constraint failed: users.username"
          [] OTHER -> "Error al crear el usuario: OperationalError",
        "")

\* crud.py lines 15 and 27: the 500 of a query that raised SQLAlchemyError.
QueryError ==
    HTTPException(500, "Error al consultar la base de datos: OperationalError", "")

\* An exception that is no HTTPException leaves the handler: the 500 of
\* '_GeneratorContextManager' object has no attribute 'query'.
AttributeError == HTTPException(500, "Internal Server Error", "")

----------------------------------------------------------------------------
(* crud.py *)

\* What a handler can hold as db.
NoDb == "none"
Session == "Session"
GeneratorContextManager == "_GeneratorContextManager"

\* db.query(UserModel).filter(UserModel.email == email).first()
\* fault: the query raises SQLAlchemyError.
get_user_by_email(handle, rows, email, fault) ==
    IF handle # Session
    THEN [raised |-> TRUE, value |-> AttributeError]
    ELSE IF fault
    THEN [raised |-> TRUE, value |-> QueryError]
    ELSE IF \E u \in rows : u.email = email
    THEN [raised |-> FALSE, value |-> CHOOSE u \in rows : u.email = email]
    ELSE [raised |-> FALSE, value |-> None]

get_user_by_username(handle, rows, username, fault) ==
    IF handle # Session
    THEN [raised |-> TRUE, value |-> AttributeError]
    ELSE IF fault
    THEN [raised |-> TRUE, value |-> QueryError]
    ELSE IF \E u \in rows : u.username = username
    THEN [raised |-> FALSE, value |-> CHOOSE u \in rows : u.username = username]
    ELSE [raised |-> FALSE, value |-> None]

\* The constraint named in the error of a refused insert: one of those the
\* row violates, the database's choice when it violates both.
Reported(rows, user_data, constraint) ==
    LET refused == ViolatedConstraints(rows, user_data.email, user_data.username)
    IN  IF constraint \in refused \/ refused = {}
        THEN constraint
        ELSE CHOOSE c \in refused : TRUE

\* Variant: db.merge in place of db.add, the new row replacing the rows it
\* collides with.
create_user_commit_Merge(handle, rows, user_data, fault, constraint) ==
    LET db_user == UserModel(NextId(rows), user_data.email, user_data.username,
                             user_data.hashed_password, user_data.is_active)
        kept == {u \in rows : u.email # user_data.email /\ u.username # user_data.username}
    IN  [rows |-> kept \cup {db_user}, raised |-> FALSE, value |-> db_user]

\* create_user, lines 36-39 and 42-47: db.add and db.commit, the first round
\* trip, after which the row is in the table for every session; on
\* SQLAlchemyError db.rollback and a 500.
\* fault: the commit raises for a reason other than the unique constraints.
\* The result is the table after the commit and the row or the exception.
create_user_commit(handle, rows, user_data, fault, constraint) ==
    LET db_user == UserModel(NextId(rows), user_data.email, user_data.username,
                             user_data.hashed_password, user_data.is_active)
    IN  IF handle # Session
        THEN [rows |-> rows, raised |-> TRUE, value |-> AttributeError]
        ELSE IF fault
        THEN [rows |-> rows, raised |-> TRUE, value |-> StorageError("OperationalError")]
        ELSE IF UniqueViolation(rows, user_data.email, user_data.username)
        THEN [rows |-> rows, raised |-> TRUE,
              value |-> StorageError(Reported(rows, user_data, constraint))]
        ELSE [rows |-> rows \cup {db_user}, raised |-> FALSE, value |-> db_user]

\* create_user, lines 40-47: db.refresh, the second round trip, a read of the
\* committed row; on SQLAlchemyError db.rollback, which undoes nothing of the
\* commit, and the 500.
\* fault: the refresh raises.
create_user_refresh(db_user, fault) ==
    IF fault
    THEN [raised |-> TRUE, value |-> StorageError("OperationalError")]
    ELSE [raised |-> FALSE, value |-> db_user]

----------------------------------------------------------------------------
(* database.py: DatabaseManager.get_db *)

\* db_manager.get_db(): the call of the @contextmanager wrapper.
get_db(t) == db' = [db EXCEPT ![t] = GeneratorContextManager]

\* __enter__: db = self.SessionLocal(); yield db
get_db_enter(t) == db' = [db EXCEPT ![t] = Session]

\* Variant: no try/finally, the session is closed only when no exception passes.
get_db_exit_NoFinally(t) ==
    db' = [db EXCEPT ![t] = IF response[t].status >= 400 THEN Session ELSE NoDb]

\* __exit__: finally: db.close()
get_db_exit(t) == db' = [db EXCEPT ![t] = NoDb]

----------------------------------------------------------------------------
(* main.py: the requests and their handlers *)

RegisterRequest(email, username, password) ==
    [email |-> email, username |-> username, token |-> NoToken,
     password |-> password, op |-> "register"]

LoginRequest(email, password) ==
    [email |-> email, username |-> "", token |-> NoToken, password |-> password, op |-> "login"]

MeRequest(token) ==
    [email |-> "", username |-> "", token |-> token, password |-> "", op |-> "me"]

NoRequest == [email |-> "", username |-> "", token |-> NoToken, password |-> "", op |-> ""]

Times == {n \in 0..MaxTime : n % TickMinutes = 0}

\* The bearer tokens a client may present: the tokens signed with SECRET_KEY
\* up to now, by this process or by another that shares the key, for any
\* subject; and tokens whose signature does not verify.
SignedTokens(clock) ==
    {create_access_token(e, ACCESS_TOKEN_EXPIRE_MINUTES, i) :
        e \in Emails, i \in {n \in Times : n <= clock}}

ForgedTokens ==
    {[create_access_token(e, ACCESS_TOKEN_EXPIRE_MINUTES, 0) EXCEPT !.sig = "bad"] :
        e \in Emails}

BearerTokens(clock) == SignedTokens(clock) \cup ForgedTokens

\* How a handler is reached: "route", through its FastAPI route, db being
\* what Depends(db_manager.get_db) passes; "call", called with the session of
\* a with db_manager.get_db() as db block.
Callers == {"route", "call"}

Dispatch(t, request, entry, via) ==
    /\ pc[t] = "idle"
    /\ req' = [req EXCEPT ![t] = request]
    /\ pc' = [pc EXCEPT ![t] = entry]
    /\ IF via = "route" THEN get_db(t) ELSE get_db_enter(t)
    /\ UNCHANGED <<store, now, response>>

PostRegister(t) ==
    \E e \in Emails, u \in Usernames, p \in ChosenPasswords, via \in Callers :
        Dispatch(t, RegisterRequest(e, u, p), "register_email", via)

PostLogin(t) ==
    \E e \in Emails, p \in Passwords, via \in Callers :
        Dispatch(t, LoginRequest(e, p), "login", via)

GetUsersMe(t) ==
    \E tok \in BearerTokens(now), via \in Callers :
        Dispatch(t, MeRequest(tok), "get_current_user", via)

\* The handler of thread t ends with response r; a session it holds is still open.
Finish(t, r) ==
    /\ response' = [response EXCEPT ![t] = r]
    /\ pc' = [pc EXCEPT ![t] = "exit"]

\* register_user, lines 137-140: the email pre-check.
register_user_email(t) ==
    /\ pc[t] = "register_email"
    /\ \E fault \in BOOLEAN :
        LET db_user == get_user_by_email(db[t], store, req[t].email, fault)
        IN  IF db_user.raised
            THEN Finish(t, db_user.value)
            ELSE IF db_user.value # None
            THEN Finish(t, DuplicateEmail)
            ELSE /\ pc' = [pc EXCEPT ![t] = "register_username"]
                 /\ UNCHANGED response
    /\ UNCHANGED <<store, now, req, db>>

\* register_user, lines 142-145: the username pre-check.
register_user_username(t) ==
    /\ pc[t] = "register_username"
    /\ \E fault \in BOOLEAN :
        LET db_user_by_username == get_user_by_username(db[t], store, req[t].username, fault)
        IN  IF db_user_by_username.raised
            THEN Finish(t, db_user_by_username.value)
            ELSE IF db_user_by_username.value # None
            THEN Finish(t, DuplicateUsername)
            ELSE /\ pc' = [pc EXCEPT ![t] = "register_create"]
                 /\ UNCHANGED response
    /\ UNCHANGED <<store, now, req, db>>

\* register_user, lines 147-154: hash, build the row, create_user up to the
\* return of db.commit.
register_user_create(t) ==
    /\ pc[t] = "register_create"
    /\ \E salt \in Salts, fault \in BOOLEAN,
          constraint \in {"users.email", "users.username"} :
        LET hashed_password == get_password_hash(salt, req[t].password)
            user_data == [email |-> req[t].email, username |-> req[t].username,
                          hashed_password |-> hashed_password, is_active |-> TRUE]
            committed == create_user_commit(db[t], store, user_data, fault, constraint)
        IN  /\ store' = committed.rows
            /\ IF committed.raised
               THEN Finish(t, committed.value)
               ELSE /\ pc' = [pc EXCEPT ![t] = "register_refresh"]
                    /\ UNCHANGED response
    /\ UNCHANGED <<now, req, db>>

\* The row thread t committed: the one with the email and the username of its
\* request.
Committed(t, rows) ==
    CHOOSE u \in rows : u.email = req[t].email /\ u.username = req[t].username

\* register_user, lines 154-156: create_user from db.refresh on, and the return.
register_user_refresh(t) ==
    /\ pc[t] = "register_refresh"
    /\ \E fault \in BOOLEAN :
        LET db_user == create_user_refresh(Committed(t, store), fault)
        IN  IF db_user.raised
            THEN Finish(t, db_user.value)
            ELSE Finish(t, Returned(201, UserResponse(db_user.value)))
    /\ UNCHANGED <<store, now, req, db>>

\* login, lines 173-188.
LoginResult(handle, rows, email, password, clock, fault) ==
    LET user == get_user_by_email(handle, rows, email, fault)
    IN  IF user.raised
        THEN user.value
        ELSE IF user.value = None \/ ~verify_password(password, user.value.hashed_password)
        THEN InvalidCredentials
        ELSE Returned(200, Token(create_access_token(user.value.email,
                                     ACCESS_TOKEN_EXPIRE_MINUTES, clock), "bearer"))

login(t) ==
    /\ pc[t] = "login"
    /\ \E fault \in BOOLEAN :
        Finish(t, LoginResult(db[t], store, req[t].email, req[t].password, now, fault))
    /\ UNCHANGED <<store, now, req, db>>

\* get_current_user, lines 113-114: the token is decoded against the clock.
get_current_user_decode(t) ==
    /\ pc[t] = "get_current_user"
    /\ IF decode_token(req[t].token, now) = None
       THEN Finish(t, InvalidToken)
       ELSE /\ pc' = [pc EXCEPT ![t] = "get_current_user_lookup"]
            /\ UNCHANGED response
    /\ UNCHANGED <<store, now, req, db>>

\* get_current_user, lines 115-118, and read_users_me, which returns the user.
CurrentUserResult(handle, rows, sub, fault) ==
    LET user == get_user_by_email(handle, rows, sub, fault)
    IN  IF user.raised
        THEN user.value
        ELSE IF user.value = None
        THEN UserNotFound
        ELSE Returned(200, UserResponse(user.value))

\* The lookup of the decoded subject, a later read of the table.
get_current_user_lookup(t) ==
    /\ pc[t] = "get_current_user_lookup"
    /\ \E fault \in BOOLEAN :
        Finish(t, CurrentUserResult(db[t], store, req[t].token.sub, fault))
    /\ UNCHANGED <<store, now, req, db>>

\* The response leaves; a get_db that was entered resumes after its yield and
\* closes the session, one that was not is dropped.
Exit(t) ==
    /\ pc[t] = "exit"
    /\ IF db[t] = Session THEN get_db_exit(t) ELSE db' = [db EXCEPT ![t] = NoDb]
    /\ pc' = [pc EXCEPT ![t] = "idle"]
    /\ req' = [req EXCEPT ![t] = NoRequest]
    /\ response' = [response EXCEPT ![t] = NoResponse]
    /\ UNCHANGED <<store, now>>

Tick ==
    /\ now + TickMinutes <= MaxTime
    /\ now' = now + TickMinutes
    /\ UNCHANGED <<store, pc, req, db, response>>

Init ==
    /\ store = {}
    /\ now = 0
    /\ pc = [t \in Workers |-> "idle"]
    /\ req = [t \in Workers |-> NoRequest]
    /\ db = [t \in Workers |-> NoDb]
    /\ response = [t \in Workers |-> NoResponse]

Step(t) ==
    \/ register_user_email(t)
    \/ register_user_username(t)
    \/ register_user_create(t)
    \/ register_user_refresh(t)
    \/ login(t)
    \/ get_current_user_decode(t)
    \/ get_current_user_lookup(t)
    \/ Exit(t)

Next ==
    \/ \E t \in Workers : PostRegister(t)
    \/ \E t \in Workers : PostLogin(t)
    \/ \E t \in Workers : GetUsersMe(t)
    \/ \E t \in Workers : Step(t)
    \/ Tick

Spec == Init /\ [][Next]_vars

\* A request that has been dispatched runs to its end: the server schedules
\* every worker thread that has a step to take.
FairSpec == Spec /\ \A t \in Workers : WF_vars(Step(t))

----------------------------------------------------------------------------
(* Properties *)

EmailTaken(rows, email) == \E u \in rows : u.email = email
UsernameTaken(rows, username) == \E u \in rows : u.username = username

AtExit(t, op) == pc[t] = "exit" /\ req[t].op = op

\* Thread t takes the step that leaves the label from.
Leaves(t, from) == pc[t] = from /\ pc'[t] # from

\* The 500s of create_user.
StorageErrors == {StorageError(e) : e \in CreateErrors}

\* C1: whatever the interleaving of concurrent register calls, no two rows of
\* the users table share an email and no two share a username.
C1_UniqueEmailAndUsername ==
    \A u, v \in store : (u.email = v.email \/ u.username = v.username) => u = v

\* Two registrations of the same email raced past the pre-checks: one row was
\* inserted, the other insert was refused.
C1_Witness ==
    \E t, q \in Workers :
        /\ AtExit(t, "register") /\ response[t].status = 201
        /\ AtExit(q, "register") /\ response[q] = StorageError("users.email")
        /\ req[t].email = req[q].email
        /\ Cardinality({u \in store : u.email = req[q].email}) = 1

\* C2: a register call whose insert is refused by a unique constraint, after it
\* passed both pre-checks, ends with the duplicate rejection of the pre-checks.
C2_RaceRejectedAsDuplicate ==
    [][\A t \in Workers :
        (Leaves(t, "register_create")
            /\ UniqueViolation(store, req[t].email, req[t].username))
        => response'[t] \in {DuplicateEmail, DuplicateUsername}]_vars

\* C3: register rejects a taken email with DuplicateEmail, whatever the
\* username; else a taken username with DuplicateUsername; else it adds the row
\* with that email, that username and is_active TRUE.  A rejection leaves the
\* table as it was.
C3_RegisterOutcome ==
    [][\A t \in Workers :
        /\ Leaves(t, "register_email") =>
            IF EmailTaken(store, req[t].email)
            THEN response'[t] = DuplicateEmail /\ pc'[t] = "exit" /\ store' = store
            ELSE pc'[t] = "register_username" /\ store' = store
        /\ Leaves(t, "register_username") =>
            IF UsernameTaken(store, req[t].username)
            THEN response'[t] = DuplicateUsername /\ pc'[t] = "exit" /\ store' = store
            ELSE pc'[t] = "register_create" /\ store' = store
        /\ (Leaves(t, "register_create")
              /\ ~EmailTaken(store, req[t].email)
              /\ ~UsernameTaken(store, req[t].username)) =>
            /\ pc'[t] = "register_refresh"
            /\ \E u \in store' \ store :
                /\ store' = store \cup {u}
                /\ u.email = req[t].email
                /\ u.username = req[t].username
                /\ u.is_active
                /\ verify_password(req[t].password, u.hashed_password)
        /\ Leaves(t, "register_refresh") =>
            /\ response'[t].status = 201
            /\ response'[t].body = UserResponse(Committed(t, store))
            /\ store' = store]_vars

\* C4: any two failed logins give the same response, the InvalidCredentials one,
\* whether the email has no row or the password is wrong.
C4_FailedLoginsIdentical ==
    \A t, q \in Workers :
        (/\ AtExit(t, "login") /\ response[t].status # 200
         /\ AtExit(q, "login") /\ response[q].status # 200)
        => response[t] = response[q] /\ response[t] = InvalidCredentials

\* C5: login returns a token exactly when a row has the email and the password
\* verifies against its hash; the token's subject is that row's email and its
\* expiry is the time of issue plus ACCESS_TOKEN_EXPIRE_MINUTES, 30 minutes.
C5_LoginIssuesToken ==
    [][\A t \in Workers :
        Leaves(t, "login") =>
            LET verified == \E u \in store :
                                /\ u.email = req[t].email
                                /\ verify_password(req[t].password, u.hashed_password)
            IN  /\ response'[t].status = 200 <=> verified
                /\ response'[t].status = 200 =>
                    LET access_token == response'[t].body.access_token
                    IN  /\ access_token.sub = req[t].email
                        /\ access_token.iat = now
                        /\ access_token.exp = now + 30
                        /\ access_token.sig = "ok"]_vars

\* C6: get_current_user returns a user only when the token decodes and a row
\* has the email of its subject at the time of the lookup, and it returns that
\* row; when the token does not decode, or no row has the subject's email, it
\* rejects with 401 and returns no user.
C6_ResolveOutcome ==
    [][\A t \in Workers :
        /\ Leaves(t, "get_current_user") =>
            IF decode_token(req[t].token, now) = None
            THEN response'[t].status = 401 /\ response'[t].body = None
            ELSE pc'[t] = "get_current_user_lookup"
        /\ Leaves(t, "get_current_user_lookup") =>
            /\ req[t].token.sig = "ok"
            /\ response'[t].status = 200 =>
                \E u \in store :
                    /\ u.email = req[t].token.sub
                    /\ response'[t].body = UserResponse(u)
            /\ ~EmailTaken(store, req[t].token.sub) =>
                /\ response'[t].status = 401
                /\ response'[t].body = None]_vars

\* The token of a login response that has been decided.
IssuedTo(t) == response[t].body.access_token

HoldsToken(t) == AtExit(t, "login") /\ response[t].status = 200

\* Thread q ends a get_current_user call for token T with this step.
Resolved(q, T) ==
    /\ pc[q] \in {"get_current_user", "get_current_user_lookup"}
    /\ pc'[q] = "exit"
    /\ req[q].token = T

\* C7: a token issued by login at time iat resolves to its user in every call
\* that ends before iat + 30 minutes, and every call made after that time is
\* rejected with 401; only the clock reaching the expiry stops it decoding,
\* and once it has stopped decoding it never decodes again.
C7_TokenLifetime ==
    [][\A t \in Workers :
        HoldsToken(t) =>
            LET T == IssuedTo(t)
                expiry == T.iat + 30
            IN  /\ \A q \in Workers :
                    /\ (Resolved(q, T) /\ now < expiry) =>
                            /\ response'[q].status = 200
                            /\ response'[q].body.email = T.sub
                            /\ \E u \in store : response'[q].body = UserResponse(u)
                    /\ (Leaves(q, "get_current_user") /\ req[q].token = T /\ now > expiry) =>
                            response'[q].status = 401
                /\ (decode_token(T, now) # None /\ decode_token(T, now') = None) =>
                        now < expiry /\ now' >= expiry
                /\ decode_token(T, now) = None => decode_token(T, now') = None
                /\ now < expiry => decode_token(T, now) # None]_vars

\* C8: when create_user fails during register, the call ends with the 500 of
\* StorageError and the users table holds the rows it held before the call: the
\* failing step changes nothing, and a call that had committed its row (it is
\* at the refresh) leaves no row with its email and username behind.
C8_FailedCreateLeavesStore ==
    [][\A t \in Workers :
        ((Leaves(t, "register_create") \/ Leaves(t, "register_refresh"))
            /\ pc'[t] = "exit" /\ response'[t].status # 201) =>
            /\ response'[t] \in StorageErrors
            /\ response'[t].status = 500
            /\ store' = store
            /\ pc[t] = "register_refresh" =>
                ~\E u \in store' : u.email = req[t].email /\ u.username = req[t].username]_vars

\* C9: a row once created is never changed and never removed: login and
\* get_current_user leave the users table as it is, and a step of register
\* changes it only by adding one row.
C9_StoreOnlyGrows ==
    [][/\ store \subseteq store'
       /\ Cardinality(store' \ store) <= 1
       /\ store' # store => \E t \in Workers : Leaves(t, "register_create")
       /\ \A t \in Workers :
            (\/ Leaves(t, "login")
             \/ Leaves(t, "get_current_user")
             \/ Leaves(t, "get_current_user_lookup")
             \/ Leaves(t, "register_email")
             \/ Leaves(t, "register_username")
             \/ Leaves(t, "register_refresh")) => store' = store]_vars

\* Both rows exist.  The call that committed the second one is still between
\* its commit and its refresh, and a login over that row has already returned
\* its token.
C9_Witness ==
    \E t, q \in Workers :
        /\ Cardinality(store) = 2
        /\ pc[t] = "register_refresh"
        /\ Committed(t, store).id = 2
        /\ AtExit(q, "login") /\ response[q].status = 200
        /\ req[q].email = req[t].email

\* C10: every session opened for a request is closed, on every path the
\* request can end by, a returned value or any of the rejections: each worker
\* thread is again and again idle with no session open, so no session stays
\* open from some point on.
C10_SessionReleased ==
    \A t \in Workers : []<>(db[t] # Session /\ pc[t] = "idle")

\* A register call is on its way out with StorageError and its session still
\* open, while the other thread has finished its request and closed its own.
C10_Witness ==
    \E t, q \in Workers :
        /\ pc[t] = "exit" /\ db[t] = Session /\ response[t] \in StorageErrors
        /\ pc[q] = "idle" /\ db[q] = NoDb /\ store # {}

====
